---- MODULE Spec2Model ----
(***************************************************************************)
(* Model of domain-lookup-mcp (src/main.go): the RDAP-then-WHOIS           *)
(* resolution of one domain (lookupDomain, lookupWithWhois) and the two    *)
(* tool handlers, lookupDomainMCP (single lookup, on the caller's task)    *)
(* and lookupDomainsMCP (batch lookup over a pool of worker goroutines     *)
(* fed by a task channel and emptied through a results channel).           *)
(*                                                                         *)
(* The two clients are injected interfaces (RDAPClient, WhoisProvider).    *)
(* A client is modelled by the set of (value, error) pairs a call for a    *)
(* domain may return; each call picks one of them.                         *)
(***************************************************************************)
EXTENDS Integers, Sequences, FiniteSets, Bags, TLC

\* ------------------------------------------------------------------ bounds

\* Longest batch of the general specification.
MaxBatch == 2

\* Longest batch of the pool specification (one more than the pool cap).
MaxPoolBatch == 11

\* The domain names of the model, in the byte order json.Marshal sorts keys by.
DomainOrder == <<"a.test", "b.test">>

Domains == {DomainOrder[k] : k \in 1..Len(DomainOrder)}

\* ------------------------------------------------------- program constants

StatusRegistered == "registered"

StatusAvailable == "available"

StatusUnknown == "unknown"

\* const numWorkers = 10
numWorkers == 10

\* ------------------------------------------------- the clients' contracts

\* RDAPClient.Do returns (*rdap.Response, error): the response is nil, or its
\* Object is an *rdap.Domain, or its Object is of another type. With an error
\* the response is nil or, the case that could mislead, a domain object.
RdapOutcomes ==
    [resp : {"nil", "domain", "other"}, err : {FALSE}]
        \cup [resp : {"nil", "domain"}, err : {TRUE}]

\* The rdap field of a resolution that has not called the primary client yet.
NoRdap == [resp |-> "nil", err |-> FALSE]

\* A nil *WhoisResult.
NilResult == [ptr |-> "nil", IsAvailable |-> "nil", RawText |-> ""]

\* type WhoisResult struct { IsAvailable *bool; RawText string }
WhoisResults == [ptr : {"ok"}, IsAvailable : {"nil", "true", "false"}, RawText : {"", "text"}]

\* WhoisProvider.Query returns (*WhoisResult, error). With an error the result
\* is nil or, the case that could mislead, a record that says available.
WhoisOutcomes ==
    [result : {NilResult} \cup WhoisResults, err : {FALSE}]
        \cup [result : {NilResult, [ptr |-> "ok", IsAvailable |-> "true", RawText |-> "text"]},
              err : {TRUE}]

\* The whois field of a resolution that has not called the secondary client.
NoWhois == [result |-> NilResult, err |-> FALSE]

\* A call of RDAPClient.Do that never returns: the request is made without a
\* deadline (rdap.NewRequest, no Timeout, no context).
RdapNever == [resp |-> "never", err |-> FALSE]

\* A call of WhoisProvider.Query that never returns: the client does not watch
\* the context it is given.
WhoisNever == [result |-> [ptr |-> "never", IsAvailable |-> "nil", RawText |-> ""],
               err |-> FALSE]

\* A client that may answer anything its interface allows, for every domain.
AnyRdapClient == [d \in Domains |-> RdapOutcomes]

AnyWhoisClient == [d \in Domains |-> WhoisOutcomes]

\* The test double of main_test.go set up with MockResponse for every domain:
\* Do returns a response holding an *rdap.Domain and no error.
MockRdapRegistered == [d \in Domains |-> {[resp |-> "domain", err |-> FALSE]}]

\* ------------------------------------------------------------------ state

VARIABLES
    rdapClient,     \* the shared RDAP client handle: domain -> possible answers
    whoisClient,    \* the shared WHOIS client handle: domain -> possible answers
    pc,             \* where the handler is
    args,           \* the request: [kind, domains]
    cur,            \* the resolution the single-lookup handler runs itself
    actualWorkers,  \* lookupDomainsMCP's actualWorkers
    i,              \* the worker-start loop's i (workers started so far)
    next,           \* index of the next domain the handler pushes
    tasks,          \* chan string
    resultsChan,    \* chan map[string]string
    workerWg,       \* sync.WaitGroup counter
    workers,        \* the live worker goroutines: a bag of resolutions
    finalResults,   \* map[string]string
    response,       \* what the handler returned
    calls,          \* calls made to each client during the request
    resolved,       \* (domain, status) pairs lookupDomain returned in the request
    jsonMarshal,    \* encoding/json: whether json.Marshal may return an error
    prev            \* history: the (domain, status) pairs of the previous response

vars == <<rdapClient, whoisClient, pc, args, cur, actualWorkers, i, next, tasks,
          resultsChan, workerWg, workers, finalResults, response, calls, resolved,
          jsonMarshal, prev>>

\* ---------------------------------------------------------------- helpers

Range(s) == {s[k] : k \in 1..Len(s)}

\* A channel that has not been made.
NoChan == [made |-> FALSE, cap |-> 0, buf |-> <<>>, closed |-> FALSE]

\* Mutant of MakeChan: a channel with room for one item.
MakeChan_One(n) == [made |-> TRUE, cap |-> 1, buf |-> <<>>, closed |-> FALSE]

\* make(chan T, n)
MakeChan(n) == [made |-> TRUE, cap |-> n, buf |-> <<>>, closed |-> FALSE]

\* A goroutine that is not resolving a domain.
Idle(p) == [pc |-> p, domain |-> "", status |-> "", rdapCalls |-> 0, rdap |-> NoRdap,
            whoisCalls |-> 0, whois |-> NoWhois]

\* lookupDomain entered for domain d: the primary call comes first.
Enter(d) == [pc |-> "rdap", domain |-> d, status |-> "", rdapCalls |-> 0, rdap |-> NoRdap,
             whoisCalls |-> 0, whois |-> NoWhois]

NoResponse == [returned |-> FALSE, text |-> "", err |-> FALSE]

NoCalls == [rdap |-> 0, whois |-> 0]

\* Mutant of minWorkers: the comparison the other way round (the larger one).
minWorkers_Max(a, b) == IF a > b THEN a ELSE b

\* func minWorkers(a, b int) int
minWorkers(a, b) == IF a < b THEN a ELSE b

\* ----------------------------------------------------- the resolution engine

\* Mutant of RdapStatus: any non-nil response counts as a registration (the
\* type assertion on resp.Object is left out).
RdapStatus_NoTypeAssertion(o) ==
    IF o.err THEN StatusUnknown
    ELSE IF o.resp # "nil" THEN StatusRegistered ELSE StatusUnknown

\* lookupDomain after rdapClient.Do returned o: the intermediate status.
RdapStatus(o) ==
    IF o.err THEN StatusUnknown
    ELSE IF o.resp # "nil"
         THEN IF o.resp = "domain" THEN StatusRegistered ELSE StatusUnknown
         ELSE StatusUnknown

\* Mutant of AfterRdap: the fallback is taken whatever the intermediate status.
AfterRdap_NoShortCircuit(r, o) ==
    [r EXCEPT !.rdapCalls = @ + 1, !.rdap = o, !.status = RdapStatus(o), !.pc = "whois"]

\* Mutant of AfterRdap: a failed primary call is tried again.
AfterRdap_Retry(r, o) ==
    [r EXCEPT !.rdapCalls = @ + 1, !.rdap = o, !.status = RdapStatus(o),
              !.pc = IF o.err THEN "rdap"
                     ELSE IF RdapStatus(o) = StatusUnknown THEN "whois" ELSE "return"]

\* lookupDomain from the primary call's return to the fallback decision.
AfterRdap(r, o) ==
    [r EXCEPT !.rdapCalls = @ + 1, !.rdap = o, !.status = RdapStatus(o),
              !.pc = IF RdapStatus(o) = StatusUnknown THEN "whois" ELSE "return"]

\* rdapClient.Do(req) is a plain synchronous call: lookupDomain goes on when it
\* returns, and stays in the call when it does not.
RdapCall(r, o) ==
    IF o = RdapNever
    THEN [r EXCEPT !.rdapCalls = @ + 1, !.rdap = o, !.pc = "blocked"]
    ELSE AfterRdap(r, o)

\* Mutant of WhoisStatus: the raw text is looked at before the flag.
WhoisStatus_TextFirst(res) ==
    IF res.RawText # "" THEN StatusRegistered
    ELSE IF res.IsAvailable # "nil"
         THEN IF res.IsAvailable = "true" THEN StatusAvailable ELSE StatusRegistered
         ELSE StatusUnknown

\* Mutant of WhoisStatus: without the raw-text inference.
WhoisStatus_NoHeuristic(res) ==
    IF res.IsAvailable # "nil"
    THEN IF res.IsAvailable = "true" THEN StatusAvailable ELSE StatusRegistered
    ELSE StatusUnknown

\* lookupWithWhois on a non-nil result.
WhoisStatus(res) ==
    IF res.IsAvailable # "nil"
    THEN IF res.IsAvailable = "true" THEN StatusAvailable ELSE StatusRegistered
    ELSE IF res.RawText # "" THEN StatusRegistered ELSE StatusUnknown

\* Mutant of AfterWhois: a returned record is used even when the call also
\* returned an error.
AfterWhois_ResultFirst(r, w) ==
    IF w.result.ptr = "ok"
    THEN [r EXCEPT !.whoisCalls = @ + 1, !.whois = w,
                   !.status = WhoisStatus(w.result), !.pc = "return"]
    ELSE IF w.err
         THEN [r EXCEPT !.whoisCalls = @ + 1, !.whois = w, !.status = StatusUnknown,
                        !.pc = "return"]
         ELSE [r EXCEPT !.whoisCalls = @ + 1, !.whois = w, !.pc = "panic"]

\* lookupWithWhois from the secondary call's return: an error gives unknown,
\* and whoisResult.IsAvailable on a nil result is a nil pointer dereference,
\* a run-time panic.
AfterWhois(r, w) ==
    IF w.err
    THEN [r EXCEPT !.whoisCalls = @ + 1, !.whois = w, !.status = StatusUnknown, !.pc = "return"]
    ELSE IF w.result.ptr = "nil"
         THEN [r EXCEPT !.whoisCalls = @ + 1, !.whois = w, !.pc = "panic"]
         ELSE [r EXCEPT !.whoisCalls = @ + 1, !.whois = w,
                        !.status = WhoisStatus(w.result), !.pc = "return"]

\* whoisClient.Query(ctx, domain) is a plain synchronous call too: the context
\* with its 10 s deadline is handed to the client, and lookupWithWhois goes on
\* only when Query returns.
WhoisCall(r, w) ==
    IF w = WhoisNever
    THEN [r EXCEPT !.whoisCalls = @ + 1, !.whois = w, !.pc = "blocked"]
    ELSE AfterWhois(r, w)

\* ------------------------------------------------------------ json.Marshal

Q == "\""

\* Mutant of Entry: value and key the wrong way round.
Entry_Swapped(m, d) == Q \o m[d] \o Q \o ":" \o Q \o d \o Q

Entry(m, d) == Q \o d \o Q \o ":" \o Q \o m[d] \o Q

RECURSIVE Entries(_, _)
\* The entries of m for the keys among DomainOrder[k..], comma separated.
Entries(m, k) ==
    IF k > Len(DomainOrder) THEN ""
    ELSE IF DomainOrder[k] \notin DOMAIN m THEN Entries(m, k + 1)
    ELSE LET rest == Entries(m, k + 1)
         IN  IF rest = "" THEN Entry(m, DomainOrder[k])
             ELSE Entry(m, DomainOrder[k]) \o "," \o rest

\* json.Marshal of a map[string]string: an object, keys sorted.
Marshal(m) == "{" \o Entries(m, 1) \o "}"

\* mcp.NewToolResponse(mcp.NewTextContent(text)), nil
TextResponse(text) == [returned |-> TRUE, text |-> text, err |-> FALSE]

\* Mutant of FormatError: the serialisation error is returned to the caller.
FormatError_Fails(msg) == [returned |-> FALSE, text |-> "", err |-> TRUE]

\* The err != nil branch after json.Marshal:
\* return mcp.NewToolResponse(mcp.NewTextContent(errorMsg)), nil
FormatError(msg) == TextResponse(msg)

\* fmt.Sprintf("Error formatting result for %s", args.Domain)
SingleErrorMsg(d) == "Error formatting result for " \o d

BatchErrorMsg == "Error formatting results for multiple domains"

\* json.Marshal of a map[string]string returns no error.
MarshalNeverFails == {FALSE}

\* json.Marshal seen as a library call returning ([]byte, error).
MarshalMayFail == {FALSE, TRUE}

\* The pairs of the response just given (nothing before the first request).
Remember ==
    IF ~prev.on \/ ~response.returned THEN prev
    ELSE IF args.kind = "single"
         THEN [on |-> TRUE, pairs |-> {<<cur.domain, cur.status>>}]
         ELSE [on |-> TRUE, pairs |-> {<<d, finalResults[d]>> : d \in DOMAIN finalResults}]

\* ------------------------------------------------------------------ Init

Fresh ==
    /\ cur = Idle("none")
    /\ actualWorkers = 0
    /\ i = 0
    /\ next = 1
    /\ tasks = NoChan
    /\ resultsChan = NoChan
    /\ workerWg = 0
    /\ workers = EmptyBag
    /\ finalResults = << >>
    /\ response = NoResponse
    /\ calls = NoCalls
    /\ resolved = {}

Init ==
    /\ rdapClient = AnyRdapClient
    /\ whoisClient = AnyWhoisClient
    /\ jsonMarshal = MarshalNeverFails
    /\ prev = [on |-> FALSE, pairs |-> {}]
    /\ pc = "idle"
    /\ args = [kind |-> "none", domains |-> <<>>]
    /\ Fresh

\* The server with the registering RDAP test double.
InitPool ==
    /\ rdapClient = MockRdapRegistered
    /\ whoisClient = AnyWhoisClient
    /\ jsonMarshal = MarshalNeverFails
    /\ prev = [on |-> FALSE, pairs |-> {}]
    /\ pc = "idle"
    /\ args = [kind |-> "none", domains |-> <<>>]
    /\ Fresh

\* ------------------------------------------------------------- the inputs

\* The batches of the general specification: every list of at most MaxBatch domains.
Batches == UNION {[1..n -> Domains] : n \in 0..MaxBatch}

\* The batches of the pool specification: one domain, 1 to MaxPoolBatch times.
PoolBatches == {[k \in 1..n |-> DomainOrder[1]] : n \in 1..MaxPoolBatch}

\* ------------------------------------------------------- the single lookup

\* The tool boundary invokes lookupDomainMCP: the handler enters lookupDomain.
LookupDomainMCP_Call ==
    /\ pc \in {"idle", "done"}
    /\ \E d \in Domains :
        /\ args' = [kind |-> "single", domains |-> <<d>>]
        /\ cur' = Enter(d)
    /\ pc' = "single"
    /\ actualWorkers' = 0
    /\ i' = 0
    /\ next' = 1
    /\ tasks' = NoChan
    /\ resultsChan' = NoChan
    /\ workerWg' = 0
    /\ workers' = EmptyBag
    /\ finalResults' = << >>
    /\ response' = NoResponse
    /\ calls' = NoCalls
    /\ resolved' = {}
    /\ prev' = Remember
    /\ UNCHANGED <<jsonMarshal, rdapClient, whoisClient>>

\* lookupDomain on the handler's task: rdapClient.Do returns.
SingleRdap ==
    /\ pc = "single"
    /\ cur.pc = "rdap"
    /\ \E o \in rdapClient[cur.domain] :
        LET r == RdapCall(cur, o)
        IN  /\ cur' = r
            /\ resolved' = IF r.pc = "return"
                           THEN resolved \cup {<<r.domain, r.status>>} ELSE resolved
    /\ calls' = [calls EXCEPT !.rdap = @ + 1]
    /\ UNCHANGED <<jsonMarshal, prev, rdapClient, whoisClient, pc, args, actualWorkers, i, next, tasks,
                   resultsChan, workerWg, workers, finalResults, response>>

\* lookupWithWhois on the handler's task: whoisClient.Query returns.
SingleWhois ==
    /\ pc = "single"
    /\ cur.pc = "whois"
    /\ \E w \in whoisClient[cur.domain] :
        LET r == WhoisCall(cur, w)
        IN  /\ cur' = r
            /\ pc' = IF r.pc = "panic" THEN "panicked" ELSE pc
            /\ resolved' = IF r.pc = "return"
                           THEN resolved \cup {<<r.domain, r.status>>} ELSE resolved
    /\ calls' = [calls EXCEPT !.whois = @ + 1]
    /\ UNCHANGED <<jsonMarshal, prev, rdapClient, whoisClient, args, actualWorkers, i, next, tasks,
                   resultsChan, workerWg, workers, finalResults, response>>

\* lookupDomainMCP after lookupDomain returned: marshal the one-entry map.
LookupDomainMCP_Return ==
    /\ pc = "single"
    /\ cur.pc = "return"
    /\ \E failed \in jsonMarshal :
        response' = IF failed THEN FormatError(SingleErrorMsg(cur.domain))
                    ELSE TextResponse(Marshal(cur.domain :> cur.status))
    /\ pc' = "done"
    /\ UNCHANGED <<jsonMarshal, prev, rdapClient, whoisClient, args, cur, actualWorkers, i, next, tasks,
                   resultsChan, workerWg, workers, finalResults, calls, resolved>>

\* -------------------------------------------------------- the batch lookup

\* Mutant of EmptyBatchText: what json.Marshal gives for a nil map.
EmptyBatchText_Null == "null"

\* The text lookupDomainsMCP answers an empty list with.
EmptyBatchText == "{}"

\* Mutant of LookupDomainsMCP_Call: the result map is one map kept between
\* requests instead of a map made for the request.
LookupDomainsMCP_Call_KeepMap(batches) ==
    /\ pc \in {"idle", "done"}
    /\ \E ds \in batches :
        LET numDomains == Len(ds)
        IN  /\ args' = [kind |-> "batch", domains |-> ds]
            /\ IF numDomains = 0
               THEN /\ response' = TextResponse("{}")
                    /\ pc' = "done"
                    /\ tasks' = NoChan
                    /\ resultsChan' = NoChan
                    /\ actualWorkers' = 0
               ELSE /\ response' = NoResponse
                    /\ pc' = "spawn"
                    /\ tasks' = MakeChan(numDomains)
                    /\ resultsChan' = MakeChan(numDomains)
                    /\ actualWorkers' = minWorkers(numWorkers, numDomains)
    /\ cur' = Idle("none")
    /\ i' = 0
    /\ next' = 1
    /\ workerWg' = 0
    /\ workers' = EmptyBag
    /\ finalResults' = finalResults
    /\ calls' = NoCalls
    /\ resolved' = {}
    /\ prev' = Remember
    /\ UNCHANGED <<jsonMarshal, rdapClient, whoisClient>>

\* lookupDomainsMCP up to the worker-start loop: an empty list is answered at
\* once, otherwise the two channels are made and the worker count computed.
LookupDomainsMCP_Call(batches) ==
    /\ pc \in {"idle", "done"}
    /\ \E ds \in batches :
        LET numDomains == Len(ds)
        IN  /\ args' = [kind |-> "batch", domains |-> ds]
            /\ IF numDomains = 0
               THEN /\ response' = TextResponse(EmptyBatchText)
                    /\ pc' = "done"
                    /\ tasks' = NoChan
                    /\ resultsChan' = NoChan
                    /\ actualWorkers' = 0
               ELSE /\ response' = NoResponse
                    /\ pc' = "spawn"
                    /\ tasks' = MakeChan(numDomains)
                    /\ resultsChan' = MakeChan(numDomains)
                    /\ actualWorkers' = minWorkers(numWorkers, numDomains)
    /\ cur' = Idle("none")
    /\ i' = 0
    /\ next' = 1
    /\ workerWg' = 0
    /\ workers' = EmptyBag
    /\ finalResults' = << >>
    /\ calls' = NoCalls
    /\ resolved' = {}
    /\ prev' = Remember
    /\ UNCHANGED <<jsonMarshal, rdapClient, whoisClient>>

\* Mutant of Spawn: the goroutine is started without workerWg.Add(1).
Spawn_NoAdd ==
    /\ pc = "spawn"
    /\ i < actualWorkers
    /\ workers' = workers (+) SetToBag({Idle("recv")})
    /\ i' = i + 1
    /\ pc' = IF i + 1 < actualWorkers THEN "spawn" ELSE "produce"
    /\ UNCHANGED <<jsonMarshal, prev, rdapClient, whoisClient, args, cur, actualWorkers,
                   next, tasks, resultsChan, finalResults, response, calls, resolved,
                   workerWg>>

\* One turn of the worker-start loop: workerWg.Add(1); go func(workerID) {...}(i).
Spawn ==
    /\ pc = "spawn"
    /\ i < actualWorkers
    /\ workerWg' = workerWg + 1
    /\ workers' = workers (+) SetToBag({Idle("recv")})
    /\ i' = i + 1
    /\ pc' = IF i + 1 < actualWorkers THEN "spawn" ELSE "produce"
    /\ UNCHANGED <<jsonMarshal, prev, rdapClient, whoisClient, args, cur, actualWorkers, next, tasks,
                   resultsChan, finalResults, response, calls, resolved>>

\* Mutant of Push: every turn of the loop pushes the first domain.
Push_FirstOnly ==
    /\ pc = "produce"
    /\ next <= Len(args.domains)
    /\ Len(tasks.buf) < tasks.cap
    /\ tasks' = [tasks EXCEPT !.buf = Append(@, args.domains[1])]
    /\ next' = next + 1
    /\ UNCHANGED <<jsonMarshal, prev, rdapClient, whoisClient, pc, args, cur, actualWorkers,
                   i, resultsChan, workerWg, workers, finalResults, response, calls,
                   resolved>>

\* tasks <- domain: blocks while the buffer is full, panics on a closed channel.
Push ==
    /\ pc = "produce"
    /\ next <= Len(args.domains)
    /\ Len(tasks.buf) < tasks.cap
    /\ IF tasks.closed
       THEN pc' = "panicked" /\ UNCHANGED <<tasks, next>>
       ELSE /\ tasks' = [tasks EXCEPT !.buf = Append(@, args.domains[next])]
            /\ next' = next + 1
            /\ UNCHANGED pc
    /\ UNCHANGED <<jsonMarshal, prev, rdapClient, whoisClient, args, cur, actualWorkers, i, resultsChan,
                   workerWg, workers, finalResults, response, calls, resolved>>

\* Mutant of CloseTasks: close(tasks) may run before the push loop is over.
CloseTasks_Early ==
    /\ pc = "produce"
    /\ IF tasks.closed
       THEN pc' = "panicked" /\ UNCHANGED tasks
       ELSE /\ tasks' = [tasks EXCEPT !.closed = TRUE]
            /\ pc' = IF next > Len(args.domains) THEN "wait" ELSE "produce"
    /\ UNCHANGED <<jsonMarshal, prev, rdapClient, whoisClient, args, cur, actualWorkers, i, next,
                   resultsChan, workerWg, workers, finalResults, response, calls, resolved>>

\* close(tasks), after the last push.
CloseTasks ==
    /\ pc = "produce"
    /\ next > Len(args.domains)
    /\ IF tasks.closed
       THEN pc' = "panicked" /\ UNCHANGED tasks
       ELSE tasks' = [tasks EXCEPT !.closed = TRUE] /\ pc' = "wait"
    /\ UNCHANGED <<jsonMarshal, prev, rdapClient, whoisClient, args, cur, actualWorkers, i, next,
                   resultsChan, workerWg, workers, finalResults, response, calls, resolved>>

\* Mutant of WaitReturns: the handler does not wait for the workers.
WaitReturns_NoWait == TRUE

\* Whether workerWg.Wait() returns.
WaitReturns == workerWg = 0

\* workerWg.Wait(); close(resultsChan)
WaitAndClose ==
    /\ pc = "wait"
    /\ WaitReturns
    /\ IF resultsChan.closed
       THEN pc' = "panicked" /\ UNCHANGED resultsChan
       ELSE resultsChan' = [resultsChan EXCEPT !.closed = TRUE] /\ pc' = "drain"
    /\ UNCHANGED <<jsonMarshal, prev, rdapClient, whoisClient, args, cur, actualWorkers, i, next, tasks,
                   workerWg, workers, finalResults, response, calls, resolved>>

\* Mutant of Store: an entry already in the result map is kept.
Store_KeepFirst(m, result) == m @@ result

\* Mutant of Store: the received map replaces the result map.
Store_Replace(m, result) == result

\* finalResults[domain] = status for the entries of one received map.
Store(m, result) == result @@ m

\* One turn of for result := range resultsChan.
Drain ==
    /\ pc = "drain"
    /\ resultsChan.buf # <<>>
    /\ finalResults' = Store(finalResults, Head(resultsChan.buf))
    /\ resultsChan' = [resultsChan EXCEPT !.buf = Tail(@)]
    /\ UNCHANGED <<jsonMarshal, prev, rdapClient, whoisClient, pc, args, cur, actualWorkers, i, next, tasks,
                   workerWg, workers, response, calls, resolved>>

\* The range loop ends on the closed, empty channel: marshal and return.
LookupDomainsMCP_Return ==
    /\ pc = "drain"
    /\ resultsChan.buf = <<>>
    /\ resultsChan.closed
    /\ \E failed \in jsonMarshal :
        response' = IF failed THEN FormatError(BatchErrorMsg)
                    ELSE TextResponse(Marshal(finalResults))
    /\ pc' = "done"
    /\ UNCHANGED <<jsonMarshal, prev, rdapClient, whoisClient, args, cur, actualWorkers, i, next, tasks,
                   resultsChan, workerWg, workers, finalResults, calls, resolved>>

\* ------------------------------------------------------------ the workers

Replace(b, old, new) == (b (-) SetToBag({old})) (+) SetToBag({new})

\* for domain := range tasks: a worker receives the next domain.
WorkerRecv ==
    /\ pc # "panicked"
    /\ tasks.buf # <<>>
    /\ \E w \in BagToSet(workers) :
        /\ w.pc = "recv"
        /\ workers' = Replace(workers, w, Enter(Head(tasks.buf)))
    /\ tasks' = [tasks EXCEPT !.buf = Tail(@)]
    /\ UNCHANGED <<jsonMarshal, prev, rdapClient, whoisClient, pc, args, cur, actualWorkers, i, next,
                   resultsChan, workerWg, finalResults, response, calls, resolved>>

\* The range ends on the closed, empty channel: defer workerWg.Done().
WorkerExit ==
    /\ pc # "panicked"
    /\ tasks.buf = <<>>
    /\ tasks.closed
    /\ \E w \in BagToSet(workers) :
        /\ w.pc = "recv"
        /\ workers' = workers (-) SetToBag({w})
    /\ workerWg' = workerWg - 1
    /\ UNCHANGED <<jsonMarshal, prev, rdapClient, whoisClient, pc, args, cur, actualWorkers, i, next, tasks,
                   resultsChan, finalResults, response, calls, resolved>>

\* lookupDomain in a worker: rdapClient.Do returns.
WorkerRdap ==
    /\ pc # "panicked"
    /\ \E w \in BagToSet(workers) :
        /\ w.pc = "rdap"
        /\ \E o \in rdapClient[w.domain] :
            LET r == RdapCall(w, o)
            IN  /\ workers' = Replace(workers, w, r)
                /\ resolved' = IF r.pc = "return"
                               THEN resolved \cup {<<r.domain, r.status>>} ELSE resolved
    /\ calls' = [calls EXCEPT !.rdap = @ + 1]
    /\ UNCHANGED <<jsonMarshal, prev, rdapClient, whoisClient, pc, args, cur, actualWorkers, i, next, tasks,
                   resultsChan, workerWg, finalResults, response>>

\* lookupWithWhois in a worker: whoisClient.Query returns. A panic in a
\* goroutine ends the process.
WorkerWhois ==
    /\ pc # "panicked"
    /\ \E w \in BagToSet(workers) :
        /\ w.pc = "whois"
        /\ \E a \in whoisClient[w.domain] :
            LET r == WhoisCall(w, a)
            IN  /\ workers' = Replace(workers, w, r)
                /\ pc' = IF r.pc = "panic" THEN "panicked" ELSE pc
                /\ resolved' = IF r.pc = "return"
                               THEN resolved \cup {<<r.domain, r.status>>} ELSE resolved
    /\ calls' = [calls EXCEPT !.whois = @ + 1]
    /\ UNCHANGED <<jsonMarshal, prev, rdapClient, whoisClient, args, cur, actualWorkers, i, next, tasks,
                   resultsChan, workerWg, finalResults, response>>

\* singleResult := map[string]string{domain: status}
SingleResult(w) == w.domain :> w.status

\* resultsChan <- singleResult: blocks while the buffer is full, panics on a
\* closed channel; then the worker is back at the range.
WorkerSend ==
    /\ pc # "panicked"
    /\ Len(resultsChan.buf) < resultsChan.cap
    /\ \E w \in BagToSet(workers) :
        /\ w.pc = "return"
        /\ IF resultsChan.closed
           THEN pc' = "panicked" /\ UNCHANGED <<resultsChan, workers>>
           ELSE /\ resultsChan' = [resultsChan EXCEPT !.buf = Append(@, SingleResult(w))]
                /\ workers' = Replace(workers, w, Idle("recv"))
                /\ UNCHANGED pc
    /\ UNCHANGED <<jsonMarshal, prev, rdapClient, whoisClient, args, cur, actualWorkers, i, next, tasks,
                   workerWg, finalResults, response, calls, resolved>>

\* --------------------------------------------------------- specifications

Next ==
    \/ LookupDomainMCP_Call
    \/ SingleRdap
    \/ SingleWhois
    \/ LookupDomainMCP_Return
    \/ LookupDomainsMCP_Call(Batches)
    \/ Spawn
    \/ Push
    \/ CloseTasks
    \/ WaitAndClose
    \/ Drain
    \/ LookupDomainsMCP_Return
    \/ WorkerRecv
    \/ WorkerExit
    \/ WorkerRdap
    \/ WorkerWhois
    \/ WorkerSend

Spec == Init /\ [][Next]_vars

\* Batch lookups only, against the registering RDAP test double: the primary
\* call always short-circuits, so no step of the secondary lookup is enabled.
NextPool ==
    \/ LookupDomainsMCP_Call(PoolBatches)
    \/ Spawn
    \/ Push
    \/ CloseTasks
    \/ WaitAndClose
    \/ Drain
    \/ LookupDomainsMCP_Return
    \/ WorkerRecv
    \/ WorkerExit
    \/ WorkerRdap
    \/ WorkerSend

SpecPool == InitPool /\ [][NextPool]_vars

\* ------------------------------------- clients that may not return at all

RdapOk == [resp |-> "domain", err |-> FALSE]

RdapError == [resp |-> "nil", err |-> TRUE]

WhoisSays(flag, text) ==
    [result |-> [ptr |-> "ok", IsAvailable |-> flag, RawText |-> text], err |-> FALSE]

WhoisError == [result |-> NilResult, err |-> TRUE]

\* An RDAP client that answers, fails, or does not come back.
SlowRdapClient == [d \in Domains |-> {RdapOk, RdapError, RdapNever}]

\* A WHOIS client that answers, fails (also with the context's deadline
\* error), or ignores the context and does not come back.
SlowWhoisClient == [d \in Domains |-> {WhoisSays("true", "text"), WhoisError, WhoisNever}]

InitHang ==
    /\ rdapClient = SlowRdapClient
    /\ whoisClient = SlowWhoisClient
    /\ jsonMarshal = MarshalNeverFails
    /\ prev = [on |-> FALSE, pairs |-> {}]
    /\ pc = "idle"
    /\ args = [kind |-> "none", domains |-> <<>>]
    /\ Fresh

\* The 10 s deadline of context.WithTimeout passes while Query has not
\* returned: ctx.Done() is closed, which only the client could act on;
\* lookupWithWhois is still inside the call (cancel is deferred to its return).
CtxDeadline ==
    /\ pc # "panicked"
    /\ \/ /\ pc = "single"
          /\ cur.pc = "blocked"
          /\ cur.whoisCalls = 1
          /\ cur' = [cur EXCEPT !.pc = "expired"]
          /\ UNCHANGED workers
       \/ /\ \E w \in BagToSet(workers) :
                /\ w.pc = "blocked"
                /\ w.whoisCalls = 1
                /\ workers' = Replace(workers, w, [w EXCEPT !.pc = "expired"])
          /\ UNCHANGED cur
    /\ UNCHANGED <<jsonMarshal, prev, rdapClient, whoisClient, pc, args, actualWorkers, i,
                   next, tasks, resultsChan, workerWg, finalResults, response, calls,
                   resolved>>

NextHang == Next \/ CtxDeadline

SpecHang == InitHang /\ [][NextHang]_vars

\* ------------------------------- clients that answer one way per domain

DetRdapAnswers == {RdapOk, RdapError}

DetWhoisAnswers ==
    {WhoisSays("true", ""), WhoisSays("false", ""), WhoisSays("nil", ""), WhoisError}

\* The test doubles of main_test.go: one fixed answer per domain.
InitDet ==
    /\ rdapClient \in [Domains -> {{o} : o \in DetRdapAnswers}]
    /\ whoisClient \in [Domains -> {{w} : w \in DetWhoisAnswers}]
    /\ jsonMarshal = MarshalNeverFails
    /\ prev = [on |-> FALSE, pairs |-> {}]
    /\ pc = "idle"
    /\ args = [kind |-> "none", domains |-> <<>>]
    /\ Fresh

SpecDet == InitDet /\ [][Next]_vars

\* ------------------------------------------ a sequence of requests, remembered

InitSeq ==
    /\ rdapClient = [d \in Domains |-> {RdapOk, RdapError}]
    /\ whoisClient = [d \in Domains |-> {WhoisSays("true", "text"), WhoisError}]
    /\ jsonMarshal = MarshalNeverFails
    /\ prev = [on |-> TRUE, pairs |-> {}]
    /\ pc = "idle"
    /\ args = [kind |-> "none", domains |-> <<>>]
    /\ Fresh

SpecSeq == InitSeq /\ [][Next]_vars

\* ------------------------------------------------ a json.Marshal that may fail

InitFmt ==
    /\ rdapClient = AnyRdapClient
    /\ whoisClient = AnyWhoisClient
    /\ jsonMarshal = MarshalMayFail
    /\ prev = [on |-> FALSE, pairs |-> {}]
    /\ pc = "idle"
    /\ args = [kind |-> "none", domains |-> <<>>]
    /\ Fresh

SpecFmt == InitFmt /\ [][Next]_vars

\* ------------------------------ the resolver with the primary source only

\* What client.Do of the earlier resolver can return: a nil response, one
\* holding an *rdap.Domain or one holding another object, with or without an
\* error.
PrimaryOnlyOutcomes == [resp : {"nil", "domain", "other"}, err : BOOLEAN]

PrimaryOnlyClient == [d \in Domains |-> PrimaryOnlyOutcomes]

\* Mutant of lookupDomainPrimaryOnly: a failed call gives unknown.
lookupDomainPrimaryOnly_Unknown(o) ==
    IF ~o.err /\ o.resp # "nil"
    THEN IF o.resp = "domain" THEN "registered" ELSE "available"
    ELSE IF o.err THEN "unknown" ELSE "available"

\* lookupDomain of the earlier resolver after client.Do returned o: status
\* starts as available and becomes registered on a domain object.
lookupDomainPrimaryOnly(o) ==
    IF ~o.err /\ o.resp # "nil"
    THEN IF o.resp = "domain" THEN "registered" ELSE "available"
    ELSE "available"

\* The resolution after the one call: lookupDomain returns.
PrimaryOnlyCall(r, o) ==
    [r EXCEPT !.rdapCalls = @ + 1, !.rdap = o, !.status = lookupDomainPrimaryOnly(o),
              !.pc = "return"]

\* lookupDomain on the handler's task.
PrimaryOnlySingle ==
    /\ pc = "single"
    /\ cur.pc = "rdap"
    /\ \E o \in rdapClient[cur.domain] :
        LET r == PrimaryOnlyCall(cur, o)
        IN  /\ cur' = r
            /\ resolved' = resolved \cup {<<r.domain, r.status>>}
    /\ calls' = [calls EXCEPT !.rdap = @ + 1]
    /\ UNCHANGED <<jsonMarshal, prev, rdapClient, whoisClient, pc, args, actualWorkers, i,
                   next, tasks, resultsChan, workerWg, workers, finalResults, response>>

\* lookupDomain in a worker.
PrimaryOnlyWorker ==
    /\ \E w \in BagToSet(workers) :
        /\ w.pc = "rdap"
        /\ \E o \in rdapClient[w.domain] :
            LET r == PrimaryOnlyCall(w, o)
            IN  /\ workers' = Replace(workers, w, r)
                /\ resolved' = resolved \cup {<<r.domain, r.status>>}
    /\ calls' = [calls EXCEPT !.rdap = @ + 1]
    /\ UNCHANGED <<jsonMarshal, prev, rdapClient, whoisClient, pc, args, cur, actualWorkers,
                   i, next, tasks, resultsChan, workerWg, finalResults, response>>

\* The earlier server: one client, no secondary source.
InitPrimaryOnly ==
    /\ rdapClient = PrimaryOnlyClient
    /\ whoisClient = [d \in Domains |-> {}]
    /\ jsonMarshal = MarshalNeverFails
    /\ prev = [on |-> FALSE, pairs |-> {}]
    /\ pc = "idle"
    /\ args = [kind |-> "none", domains |-> <<>>]
    /\ Fresh

NextPrimaryOnly ==
    \/ LookupDomainMCP_Call
    \/ PrimaryOnlySingle
    \/ LookupDomainMCP_Return
    \/ LookupDomainsMCP_Call(Batches)
    \/ Spawn
    \/ Push
    \/ CloseTasks
    \/ WaitAndClose
    \/ Drain
    \/ LookupDomainsMCP_Return
    \/ WorkerRecv
    \/ WorkerExit
    \/ PrimaryOnlyWorker
    \/ WorkerSend

SpecPrimaryOnly == InitPrimaryOnly /\ [][NextPrimaryOnly]_vars

\* ------------------------------------------- scheduling of the goroutines

\* A step of the batch handler or of one of its workers.
PoolStep ==
    \/ Spawn
    \/ Push
    \/ CloseTasks
    \/ WaitAndClose
    \/ Drain
    \/ LookupDomainsMCP_Return
    \/ WorkerRecv
    \/ WorkerExit
    \/ WorkerRdap
    \/ WorkerWhois
    \/ WorkerSend

\* The Go scheduler runs a goroutine that is able to take a step, and every
\* client call returns: while some goroutine of the batch can step, one does.
SpecFair == Init /\ [][Next]_vars /\ WF_vars(PoolStep)

\* The same scheduling with the test doubles that answer one way per domain.
SpecDetFair == InitDet /\ [][Next]_vars /\ WF_vars(PoolStep)

\* The same scheduling for batches of up to MaxPoolBatch tasks.
SpecPoolFair == InitPool /\ [][NextPool]_vars /\ WF_vars(PoolStep)

\* ------------------------------------------------------------ properties

\* The resolutions in progress or just returned: the workers' and the
\* single-lookup handler's.
Resolutions == BagToSet(workers) \cup {cur}

\* The primary call returned no error and a response holding a domain object.
PrimaryRecognized(r) == r.rdapCalls = 1 /\ ~r.rdap.err /\ r.rdap.resp = "domain"

\* The primary call returned an error.
PrimaryFailed(r) == r.rdapCalls = 1 /\ r.rdap.err

\* The primary call returned no error and a nil response or a non-domain object.
PrimaryUnexpected(r) == r.rdapCalls = 1 /\ ~r.rdap.err /\ r.rdap.resp \in {"nil", "other"}

\* The secondary call returned no error and a record.
SecondaryAnswered(r) == r.whoisCalls = 1 /\ ~r.whois.err /\ r.whois.result.ptr = "ok"

\* C1: whenever the primary call of a resolution returned no error and a
\* domain-registration object, lookupDomain has returned registered and the
\* resolution made no call to the secondary client.
C1_PrimaryShortCircuit ==
    \A r \in Resolutions :
        PrimaryRecognized(r) =>
            /\ r.pc = "return"
            /\ r.status = "registered"
            /\ r.whoisCalls = 0
            /\ r.whois = NoWhois

\* A worker and the single-lookup handler have each short-circuited (in
\* different requests, so the witness names a worker).
C1_Witness ==
    \E w \in BagToSet(workers) :
        PrimaryRecognized(w) /\ w.pc = "return" /\ calls.whois = 0

\* C2: when the primary call failed and the secondary call returned a record
\* with the availability flag set, lookupDomain returns available for true
\* and registered for false, whatever the raw text.
C2_FlagDecides ==
    \A r \in Resolutions :
        (PrimaryFailed(r) /\ SecondaryAnswered(r) /\ r.whois.result.IsAvailable # "nil") =>
            /\ r.pc = "return"
            /\ r.status = IF r.whois.result.IsAvailable = "true"
                          THEN "available" ELSE "registered"

\* Available although the record carries raw text, and registered although
\* it carries none.
C2_Witness ==
    /\ \E r \in Resolutions :
        /\ PrimaryFailed(r) /\ SecondaryAnswered(r)
        /\ r.whois.result.IsAvailable = "true" /\ r.whois.result.RawText = "text"
        /\ r.status = "available"
    /\ \E r \in Resolutions :
        /\ PrimaryFailed(r) /\ SecondaryAnswered(r)
        /\ r.whois.result.IsAvailable = "false" /\ r.whois.result.RawText = ""
        /\ r.status = "registered"

\* C3: when the primary call failed and the secondary call failed too,
\* lookupDomain returns unknown (a value, not a failure), and a failed
\* primary call is always followed by the secondary call.
C3_BothFailUnknown ==
    \A r \in Resolutions :
        /\ (PrimaryFailed(r) /\ r.whoisCalls = 1 /\ r.whois.err) =>
                (r.pc = "return" /\ r.status = "unknown")
        /\ PrimaryFailed(r) => (r.pc = "whois" \/ r.whoisCalls = 1)

\* Both calls failed, the secondary one although it also handed back a
\* record saying available.
C3_Witness ==
    \E r \in Resolutions :
        /\ PrimaryFailed(r) /\ r.whoisCalls = 1 /\ r.whois.err
        /\ r.whois.result.ptr = "ok" /\ r.whois.result.IsAvailable = "true"
        /\ r.pc = "return"

\* C4: when the primary call failed and the secondary call returned a record
\* without the availability flag, lookupDomain returns registered for
\* non-empty raw text and unknown for empty raw text.
C4_RawTextHeuristic ==
    \A r \in Resolutions :
        (PrimaryFailed(r) /\ SecondaryAnswered(r) /\ r.whois.result.IsAvailable = "nil") =>
            /\ r.pc = "return"
            /\ r.status = IF r.whois.result.RawText # "" THEN "registered" ELSE "unknown"

\* Two workers of one batch, one with raw text and one without.
C4_Witness ==
    /\ \E r \in Resolutions :
        /\ PrimaryFailed(r) /\ SecondaryAnswered(r)
        /\ r.whois.result.IsAvailable = "nil" /\ r.whois.result.RawText = "text"
        /\ r.status = "registered"
    /\ \E r \in Resolutions :
        /\ PrimaryFailed(r) /\ SecondaryAnswered(r)
        /\ r.whois.result.IsAvailable = "nil" /\ r.whois.result.RawText = ""
        /\ r.status = "unknown"

\* C5: a primary call that succeeds with a nil response or a non-domain
\* object leads to the secondary call, and two resolutions, one after such a
\* success and one after a primary failure, that get the same secondary
\* answer end the same way with the same status.
C5_UnexpectedShapeIsFailure ==
    /\ \A r \in Resolutions :
        PrimaryUnexpected(r) => (r.pc = "whois" \/ r.whoisCalls = 1)
    /\ \A r1, r2 \in Resolutions :
        (/\ PrimaryUnexpected(r1) /\ PrimaryFailed(r2)
         /\ r1.whoisCalls = 1 /\ r2.whoisCalls = 1
         /\ r1.whois = r2.whois) =>
            (r1.pc = r2.pc /\ r1.status = r2.status)

\* Two workers of one batch got the same secondary record, one after a
\* non-domain object and one after a primary error.
C5_Witness ==
    \E r1, r2 \in Resolutions :
        /\ r1.rdapCalls = 1 /\ ~r1.rdap.err /\ r1.rdap.resp = "other"
        /\ PrimaryFailed(r2)
        /\ SecondaryAnswered(r1) /\ r1.whois = r2.whois
        /\ r1.status = "available" /\ r2.status = "available"

\* C6: every resolution ends by returning one of registered, available,
\* unknown: no resolution panics and the process never dies.
C6_TriStateTotality ==
    /\ pc # "panicked"
    /\ \A r \in Resolutions :
        /\ r.pc # "panic"
        /\ r.pc = "return" => r.status \in {"registered", "available", "unknown"}

\* C7: when a batch of at least one domain has returned, the keys of the
\* result map are exactly the distinct domains of the input, and each key is
\* mapped to a status that lookupDomain returned for that domain from the
\* clients' answers during the batch.
C7_BatchResultMap ==
    (pc = "done" /\ args.kind = "batch" /\ Len(args.domains) >= 1) =>
        /\ DOMAIN finalResults = Range(args.domains)
        /\ Cardinality(DOMAIN finalResults) <= Len(args.domains)
        /\ \A d \in DOMAIN finalResults :
            /\ <<d, finalResults[d]>> \in resolved
            /\ (\A s \in {"registered", "available", "unknown"} :
                    (\A p \in resolved : p[1] = d => p[2] = s) => finalResults[d] = s)

\* A batch naming one domain twice has returned a one-key map although the
\* two resolutions ended differently.
C7_Witness ==
    /\ pc = "done" /\ args.kind = "batch"
    /\ Len(args.domains) = 2 /\ args.domains[1] = args.domains[2]
    /\ DOMAIN finalResults = {args.domains[1]}
    /\ Cardinality(resolved) = 2

\* C8: a batch lookup of an empty list is answered in the very step that
\* receives it, with the text {} and a nil error: no worker is started, no
\* channel is made and neither client is called.
C8_EmptyBatch ==
    (args.kind = "batch" /\ Len(args.domains) = 0) =>
        /\ pc = "done"
        /\ response = [returned |-> TRUE, text |-> "{}", err |-> FALSE]
        /\ i = 0 /\ workerWg = 0 /\ workers = EmptyBag
        /\ ~tasks.made /\ ~resultsChan.made
        /\ calls = [rdap |-> 0, whois |-> 0]
        /\ finalResults = << >>

\* An empty batch has been answered.
C8_Witness ==
    /\ args.kind = "batch" /\ args.domains = << >>
    /\ response.returned /\ response.text = "{}"

\* The workers that hold a domain: between receiving it and sending its result.
InFlight == BagCardinality(workers) - CopiesIn(Idle("recv"), workers)

\* min(10, k), written out.
PoolSize(k) == IF k <= 10 THEN k ELSE 10

\* C9: for a batch of k >= 1 domains exactly min(10, k) workers are started
\* (never more while starting them, exactly that many once the pushes begin),
\* and at most min(10, k) resolutions are in flight.
C9_WorkerCount ==
    (args.kind = "batch" /\ Len(args.domains) >= 1) =>
        /\ actualWorkers = PoolSize(Len(args.domains))
        /\ i <= PoolSize(Len(args.domains))
        /\ pc \in {"produce", "wait", "drain", "done"} => i = PoolSize(Len(args.domains))
        /\ BagCardinality(workers) <= PoolSize(Len(args.domains))
        /\ InFlight <= PoolSize(Len(args.domains))

\* Eleven domains, ten workers started, all ten resolving, one domain queued.
C9_Witness ==
    /\ args.kind = "batch" /\ Len(args.domains) = 11
    /\ i = 10 /\ InFlight = 10 /\ Len(tasks.buf) = 1

\* C10: in a batch, a failure while resolving one domain never stops the
\* resolution of a sibling domain: the process does not die while another
\* worker holds a domain.
C10_WorkerIsolation ==
    ~ (/\ args.kind = "batch"
       /\ pc = "panicked"
       /\ \E w \in BagToSet(workers) : w.pc \in {"rdap", "whois", "return"})

\* C11: a batch lookup never blocks for good: as long as it has not returned
\* its response, some step of the handler, of a worker or of a client call is
\* still to come.
C11_BatchReturns ==
    args.kind = "batch" => (pc = "done" \/ ENABLED NextHang)

\* C12: the secondary lookup's 10 s scope releases the caller whatever the
\* client does: a worker whose Query call has outlived the deadline is never
\* left without a step that ends the resolution and frees the worker.
C12_TimeoutReleases ==
    (\E w \in BagToSet(workers) : w.pc = "expired") => ENABLED NextHang

\* C13: no client outcome shows as an error at the tool boundary: whenever a
\* handler has ended, it has returned a response with a text and a nil error.
C13_NoErrorAtBoundary ==
    pc \in {"done", "panicked"} =>
        (response.returned /\ ~response.err /\ response.text # "")

Tokens == {"registered", "available", "unknown"}

\* "k":"v"
Pair(k, v) == "\"" \o k \o "\":\"" \o v \o "\""

\* The JSON object text of a map over the model's domains, keys in order.
ObjectText(m) ==
    LET ks == SelectSeq(DomainOrder, LAMBDA d : d \in DOMAIN m)
    IN  IF Len(ks) = 0 THEN "{}"
        ELSE IF Len(ks) = 1 THEN "{" \o Pair(ks[1], m[ks[1]]) \o "}"
        ELSE "{" \o Pair(ks[1], m[ks[1]]) \o "," \o Pair(ks[2], m[ks[2]]) \o "}"

\* C14: the single lookup's response is the JSON object with the one entry
\* requested domain : status lookupDomain returned, and in the single and the
\* batch response every value is one of registered, available, unknown.
C14_ResponseJson ==
    /\ (pc = "done" /\ args.kind = "single") =>
        /\ cur.domain = args.domains[1]
        /\ <<cur.domain, cur.status>> \in resolved
        /\ cur.status \in Tokens
        /\ response.text = "{" \o Pair(args.domains[1], cur.status) \o "}"
    /\ (pc = "done" /\ args.kind = "batch") =>
        \E m \in [Range(args.domains) -> Tokens] : response.text = ObjectText(m)

\* A single lookup answered available.
C14_Witness ==
    /\ pc = "done" /\ args.kind = "single"
    /\ response.text = "{\"a.test\":\"available\"}"

\* C15: the result map is written only by the handler's drain loop and only
\* after the join: whenever it holds an entry, no worker lives, the wait
\* group is at zero and the results channel is closed; while workers live the
\* results are in the channel only.
C15_JoinBeforeDrain ==
    /\ DOMAIN finalResults # {} =>
        /\ pc \in {"drain", "done"}
        /\ workers = EmptyBag
        /\ workerWg = 0
        /\ resultsChan.closed
    /\ pc \in {"drain", "done"} => (workers = EmptyBag /\ workerWg = 0)
    /\ workerWg = BagCardinality(workers)

\* In the middle of the drain: one result stored, one still in the channel.
C15_Witness ==
    /\ pc = "drain"
    /\ DOMAIN finalResults # {}
    /\ resultsChan.buf # << >>

\* How often domain d has been pushed, is queued, is held by a worker, and
\* has been emitted to the results channel.
PushedCount(d) == Cardinality({k \in 1..(next - 1) : args.domains[k] = d})

QueuedCount(d) == Cardinality({k \in 1..Len(tasks.buf) : tasks.buf[k] = d})

HeldCount(d) ==
    BagCardinality([w \in {x \in BagToSet(workers) : x.domain = d} |-> workers[w]])

EmittedCount(d) ==
    Cardinality({k \in 1..Len(resultsChan.buf) : d \in DOMAIN resultsChan.buf[k]})

\* The resolutions that have called the primary client.
Started == BagCardinality([w \in {x \in BagToSet(workers) : x.rdapCalls = 1} |-> workers[w]])

\* C16: every entry of a batch is pushed once, all of them before the
\* queue is closed; until the drain every pushed entry is queued, held by one
\* worker or emitted (none lost, none twice); lookupDomain is entered once per
\* entry taken, so after the join N results are in the channel and the
\* primary client has been called N times.
C16_ExactlyOnce ==
    (args.kind = "batch" /\ pc \in {"spawn", "produce", "wait", "drain", "done"}) =>
        /\ next <= Len(args.domains) + 1
        /\ tasks.closed => next = Len(args.domains) + 1
        /\ pc \in {"spawn", "produce", "wait"} =>
            /\ \A d \in Domains :
                PushedCount(d) = QueuedCount(d) + HeldCount(d) + EmittedCount(d)
            /\ calls.rdap = Started + Len(resultsChan.buf)
        /\ (pc = "wait" /\ workers = EmptyBag) =>
            (tasks.buf = << >> /\ Len(resultsChan.buf) = Len(args.domains))
        /\ pc \in {"drain", "done"} => calls.rdap = Len(args.domains)

\* Two different domains, both resolved and emitted, all workers gone.
C16_Witness ==
    /\ args.kind = "batch" /\ pc = "wait" /\ workers = EmptyBag
    /\ Len(args.domains) = 2 /\ args.domains[1] # args.domains[2]
    /\ Len(resultsChan.buf) = 2 /\ calls.rdap = 2

\* C17: in one resolution the primary client is called once, the secondary
\* client at most once and only after the primary call returned something
\* other than a registration; no call is made a second time.
C17_SequentialNoRetry ==
    /\ \A r \in Resolutions :
        /\ r.rdapCalls <= 1 /\ r.whoisCalls <= 1
        /\ r.pc = "rdap" => (r.rdapCalls = 0 /\ r.whoisCalls = 0)
        /\ r.pc = "whois" => (r.rdapCalls = 1 /\ r.whoisCalls = 0)
        /\ r.pc \in {"return", "panic"} => r.rdapCalls = 1
        /\ r.whoisCalls = 1 => (r.rdapCalls = 1 /\ ~PrimaryRecognized(r))
    /\ calls.whois <= calls.rdap
    /\ (pc = "done" /\ args.kind = "single") => (calls.rdap = 1 /\ calls.whois <= 1)
    /\ (pc = "done" /\ args.kind = "batch") =>
        (calls.rdap = Len(args.domains) /\ calls.whois <= Len(args.domains))

\* A single lookup has ended after one failed call to each client.
C17_Witness ==
    /\ pc = "done" /\ args.kind = "single"
    /\ cur.rdap.err /\ cur.whois.err
    /\ calls = [rdap |-> 1, whois |-> 1]

\* The one answer of a client that answers a domain one way.
TheAnswer(answers) == CHOOSE x \in answers : TRUE

\* The status the resolution rules give a domain whose answers are fixed.
Verdict(d) ==
    LET o == TheAnswer(rdapClient[d])
        w == TheAnswer(whoisClient[d])
    IN  IF ~o.err /\ o.resp = "domain" THEN "registered"
        ELSE IF w.err THEN "unknown"
        ELSE IF w.result.IsAvailable = "true" THEN "available"
        ELSE IF w.result.IsAvailable = "false" THEN "registered"
        ELSE IF w.result.RawText # "" THEN "registered"
        ELSE "unknown"

Deterministic ==
    \A d \in Domains : Cardinality(rdapClient[d]) = 1 /\ Cardinality(whoisClient[d]) = 1

\* C18: with clients that answer each domain one way, the outcome of a batch
\* is a function of the request and the clients alone, whatever the order of
\* the workers' steps and of the results in the channel: every emitted result
\* and, at the end, the whole map and the response text are the ones the
\* domains' fixed answers give.
C18_InterleavingIndependent ==
    (Deterministic /\ args.kind = "batch") =>
        /\ \A k \in 1..Len(resultsChan.buf) :
            \A d \in DOMAIN resultsChan.buf[k] : resultsChan.buf[k][d] = Verdict(d)
        /\ pc = "done" =>
            /\ finalResults = [d \in Range(args.domains) |-> Verdict(d)]
            /\ response.text = ObjectText([d \in Range(args.domains) |-> Verdict(d)])

\* The results of two domains with different verdicts sit in the channel in
\* the reverse of the order the domains were pushed in.
C18_Witness ==
    /\ Deterministic /\ args.kind = "batch" /\ pc = "wait"
    /\ Len(args.domains) = 2 /\ Len(resultsChan.buf) = 2
    /\ args.domains[2] \in DOMAIN resultsChan.buf[1]
    /\ args.domains[1] \in DOMAIN resultsChan.buf[2]
    /\ Verdict(args.domains[1]) # Verdict(args.domains[2])

\* C19: a batch request starts from a task queue, a results channel and a
\* result map of its own, all empty, and its response holds only its own
\* domains, each with a status resolved during this request, whatever the
\* previous response held.
C19_NoCarryOver ==
    /\ (args.kind = "batch" /\ pc = "spawn" /\ i = 0) =>
        /\ tasks = [made |-> TRUE, cap |-> Len(args.domains), buf |-> << >>, closed |-> FALSE]
        /\ resultsChan = tasks
        /\ DOMAIN finalResults = {}
        /\ workers = EmptyBag /\ workerWg = 0
        /\ ~response.returned
    /\ (args.kind = "batch" /\ pc \in {"drain", "done"}) =>
        /\ DOMAIN finalResults \subseteq Range(args.domains)
        /\ \A d \in DOMAIN finalResults : <<d, finalResults[d]>> \in resolved
    /\ (args.kind = "batch" /\ pc = "done" /\ Len(args.domains) >= 1) =>
        response.text = ObjectText(finalResults)

\* The previous response held both domains as registered; this batch asked
\* for one of them only and answers available.
C19_Witness ==
    /\ args.kind = "batch" /\ pc = "done"
    /\ prev.on /\ prev.pairs = {<<"a.test", "registered">>, <<"b.test", "registered">>}
    /\ args.domains = <<"a.test">>
    /\ response.text = "{\"a.test\":\"available\"}"

\* C20: when json.Marshal fails, the handler still returns a response, with
\* a nil error, whose text is the handler's error message; so every response
\* is a text with a nil error, either the JSON object or that message.
C20_MarshalFailure ==
    pc = "done" =>
        /\ response.returned /\ ~response.err
        /\ args.kind = "single" =>
            response.text \in {"{" \o Pair(cur.domain, cur.status) \o "}",
                               "Error formatting result for " \o cur.domain}
        /\ (args.kind = "batch" /\ Len(args.domains) >= 1) =>
            response.text \in {ObjectText(finalResults),
                               "Error formatting results for multiple domains"}

\* A batch whose map could not be serialised has been answered.
C20_Witness ==
    /\ pc = "done" /\ args.kind = "batch"
    /\ response.returned /\ ~response.err
    /\ response.text = "Error formatting results for multiple domains"

\* The batch handler has returned: no worker is left, the results channel is
\* closed and empty, and there is a response.
BatchReturned ==
    /\ pc = "done"
    /\ workers = EmptyBag /\ workerWg = 0
    /\ tasks.closed /\ tasks.buf = << >>
    /\ resultsChan.closed /\ resultsChan.buf = << >>
    /\ response.returned

\* C21: when every client call returns and every goroutine that can step is
\* scheduled, a batch of one or more domains that has started leads to the
\* workers having left their loops, the join done, the results channel
\* closed and drained, and the handler returned.
C21_PoolTerminates == (args.kind = "batch" /\ pc = "spawn") ~> BatchReturned

\* C22: in a batch of N domains both channels have capacity N and never hold
\* more than N items; the producer about to push finds room in the task
\* queue, and a worker about to send finds room in the results channel, so
\* neither send ever waits.
C22_ChannelCapacity ==
    (args.kind = "batch" /\ tasks.made) =>
        /\ tasks.cap = Len(args.domains)
        /\ resultsChan.made /\ resultsChan.cap = Len(args.domains)
        /\ Len(tasks.buf) <= Len(args.domains)
        /\ Len(resultsChan.buf) <= Len(args.domains)
        /\ (pc = "produce" /\ next <= Len(args.domains)) => Len(tasks.buf) < tasks.cap
        /\ \A w \in BagToSet(workers) :
            w.pc = "return" => Len(resultsChan.buf) < resultsChan.cap

\* More tasks than workers, and every result is in the results channel,
\* which is full, before the handler has drained any.
C22_Witness ==
    /\ args.kind = "batch" /\ pc = "wait"
    /\ Len(args.domains) > numWorkers
    /\ Len(resultsChan.buf) = resultsChan.cap
    /\ resultsChan.cap = Len(args.domains)

\* C23: the task queue is closed only after the last push and is not closed
\* while the producer still runs; the results channel is closed only after
\* the task queue is closed and every worker has finished, and is not closed
\* while the handler waits; no worker holds a result to send on a closed
\* results channel; so no send on, and no second close of, a closed channel
\* happens: the only panic of the model is a worker's own.
C23_CloseSafety ==
    args.kind = "batch" =>
        /\ tasks.closed => next = Len(args.domains) + 1
        /\ pc \in {"spawn", "produce"} => (~tasks.closed /\ ~resultsChan.closed)
        /\ pc = "wait" => (tasks.closed /\ ~resultsChan.closed)
        /\ resultsChan.closed =>
            /\ tasks.closed
            /\ pc \in {"drain", "done"}
            /\ workers = EmptyBag /\ workerWg = 0
        /\ \A w \in BagToSet(workers) : w.pc = "return" => ~resultsChan.closed
        /\ pc = "panicked" => \E w \in BagToSet(workers) : w.pc = "panic"

\* Both channels have been closed, the results of two tasks still to drain.
C23_Witness ==
    /\ args.kind = "batch" /\ pc = "drain"
    /\ tasks.closed /\ resultsChan.closed
    /\ Len(resultsChan.buf) = 2

\* How often domain d occurs in the request.
Occurrences(d) == Cardinality({k \in 1..Len(args.domains) : args.domains[k] = d})

\* What is true of a batch with repeated domains in every state.
DuplicatesResolved ==
    (args.kind = "batch" /\ Len(args.domains) >= 1) =>
        /\ actualWorkers = IF Len(args.domains) < numWorkers
                           THEN Len(args.domains) ELSE numWorkers
        /\ \A k \in 1..Len(resultsChan.buf) :
            \A d \in DOMAIN resultsChan.buf[k] : <<d, resultsChan.buf[k][d]>> \in resolved
        /\ (pc = "wait" /\ workerWg = 0) =>
            /\ \A d \in Domains : EmittedCount(d) = Occurrences(d)
            /\ calls.rdap = Len(args.domains)
        /\ pc \in {"drain", "done"} =>
            \A d \in DOMAIN finalResults : <<d, finalResults[d]>> \in resolved
        /\ pc = "done" => DOMAIN finalResults = Range(args.domains)

\* A turn of the drain loop leaves in the map, for the domain of the result
\* it received, the status of that result, and the other entries as they were.
LastDrainedWins ==
    (pc = "drain" /\ resultsChan.buf # << >> /\ resultsChan' = [resultsChan EXCEPT !.buf = Tail(@)]) =>
        LET result == Head(resultsChan.buf)
        IN  /\ DOMAIN finalResults' = DOMAIN finalResults \cup DOMAIN result
            /\ \A d \in DOMAIN finalResults' :
                finalResults'[d] = IF d \in DOMAIN result THEN result[d] ELSE finalResults[d]

\* C24: a domain that occurs m times in a batch is resolved m times, every
\* occurrence counting for the number of workers; its one entry in the final
\* map is the status of the result drained last, which one of its m
\* resolutions returned.
C24_Duplicates == []DuplicatesResolved /\ [][LastDrainedWins]_vars

\* One domain asked for twice was resolved twice with different statuses,
\* and the map holds one entry for it.
C24_Witness ==
    /\ args.kind = "batch" /\ pc = "done"
    /\ args.domains = <<"a.test", "a.test">>
    /\ {<<"a.test", "registered">>, <<"a.test", "available">>} \subseteq resolved
    /\ calls.rdap = 2
    /\ finalResults = ("a.test" :> "available")

\* C25: in the resolver with the primary source only, lookupDomain returns
\* registered exactly when the call returned no error and a non-nil response
\* holding a domain object, and available in every other case, a failed call
\* included; it never returns unknown and calls no secondary source; so the
\* result map of a batch holds registered and available only.
C25_PrimaryOnly ==
    /\ \A r \in Resolutions :
        r.pc = "return" =>
            /\ r.rdapCalls = 1 /\ r.whoisCalls = 0
            /\ r.status = "registered" <=>
                (~r.rdap.err /\ r.rdap.resp # "nil" /\ r.rdap.resp = "domain")
            /\ r.status # "registered" => r.status = "available"
            /\ r.status # "unknown"
    /\ \A d \in DOMAIN finalResults : finalResults[d] \in {"registered", "available"}
    /\ \A p \in resolved : p[2] \in {"registered", "available"}

\* A resolution whose call failed with an error has returned available.
C25_Witness ==
    \E r \in Resolutions :
        /\ r.pc = "return"
        /\ r.rdap.err /\ r.rdap.resp = "nil"
        /\ r.status = "available"

====
